---- MODULE Spec2Model ----
(***************************************************************************)
(* Backpack override detector (src/backpack-override-detector.js).         *)
(*                                                                         *)
(* The user script scans the page for elements whose own single-class CSS  *)
(* rule is overridden by a later ".Bpk" rule, shows a summary panel with   *)
(* two toggles, and re-scans on DOM mutations through a timer.             *)
(*                                                                         *)
(* Strings the code inspects character by character (selector texts and    *)
(* class names) are tuples of one-character strings, so that startsWith    *)
(* and the regular expression of isNonBackpackClassRule are computed.      *)
(***************************************************************************)
EXTENDS Integers, Sequences, FiniteSets, TLC

VARIABLES
    dom,                  \* element id -> element (document order = id order)
    styleSheets,          \* document.styleSheets
    results,              \* let results
    wrapper,              \* let wrapper (FALSE = undefined, TRUE = the panel)
    text,                 \* the count text.innerHTML shows (-1 = no text node yet)
    highlightState,       \* `state` of the "Highlight Elements" toggle
    fixState,             \* `state` of the "Fix Properties" toggle
    initialisedElements,  \* let initialisedElements
    updateTimeout,        \* let updateTimeout (0 = undefined, else a timer id)
    timers,               \* the browser's armed timers: records [id, remaining]
    nextTimerId,          \* the id the next setTimeout returns
    pc,                   \* "load" before the script body ran, "idle" after
    mutationQueued,       \* the MutationObserver holds undelivered records
    windowSignals,        \* history: signals delivered while a timer was armed
    windowScans,          \* history: timer-run updates since the window opened
    sinceFirst,           \* history: ms since the signal that armed the timer
    sinceLast,            \* history: ms since the last delivered signal
    unscanned,            \* history: a delivered signal not yet followed by a scan
    everHighlighted,      \* history: elements that received the highlight shadow
    emitter               \* an EventEmitter and the outcome of its last call

vars == <<dom, styleSheets, results, wrapper, text, highlightState, fixState,
          initialisedElements, updateTimeout, timers, nextTimerId, pc,
          mutationQueued, windowSignals, windowScans, sinceFirst, sinceLast,
          unscanned, everHighlighted, emitter>>

----------------------------------------------------------------------------
(* Bounds of the model *)

\* rules in the style sheet of the resolver inputs
MaxRules == 3
\* elements of the page
NumElements == 3
\* clock steps per settling delay
TicksPerDelay == 2
\* cap of the history counter of signals
MaxSignals == 3
\* style sheets of the findCssRules inputs, and rules in each
MaxSheets == 2
MaxSheetRules == 2
\* handlers registered with one emitter
MaxHandlers == 3

(* Program constants *)

\* setTimeout(..., 500)
Delay == 500

TickMs == Delay \div TicksPerDelay

----------------------------------------------------------------------------
(* Strings as character tuples *)

Letters ==
    {"a","b","c","d","e","f","g","h","i","j","k","l","m","n","o","p","q","r",
     "s","t","u","v","w","x","y","z","A","B","C","D","E","F","G","H","I","J",
     "K","L","M","N","O","P","Q","R","S","T","U","V","W","X","Y","Z"}
Digits == {"0","1","2","3","4","5","6","7","8","9"}

\* the character class [a-zA-Z0-9_-]
ClassChars == Letters \cup Digits \cup {"_", "-"}

\* the characters of the compound selectors Element.matches reads here
SelectorChars == ClassChars \cup {"."}

\* String.prototype.startsWith
startsWith(s, prefix) ==
    /\ Len(s) >= Len(prefix)
    /\ SubSeq(s, 1, Len(prefix)) = prefix

\* class names
Card == <<"C","a","r","d">>
Bpk_X == <<"B","p","k","_","X">>

Bp == <<"B","p">>
Bpk == <<"B","p","k">>

\* selector texts
SelCard == <<".","C","a","r","d">>
SelBpk_X == <<".","B","p","k","_","X">>
SelDiv == <<"d","i","v">>
SelBp == <<".","B","p">>
SelBpk == <<".","B","p","k">>
SelDivCard == <<"d","i","v",".","C","a","r","d">>
\* the selectorText of a CSSPageRule (@page :first), no selector for matches()
SelPageFirst == <<":","f","i","r","s","t">>

----------------------------------------------------------------------------
(* CSS values: rule.styleMap holds CSSStyleValue objects, compared by the  *)
(* code through toString()                                                 *)

Keyword(v) == [kind |-> "keyword", value |-> v]
Unit(n, u) == [kind |-> "unit", value |-> n, unit |-> u]

\* CSSStyleValue.toString as getValue uses it
getValue(v) ==
    IF v.kind = "unit" THEN ToString(v.value) \o v.unit ELSE v.value

\* property names in the order styleMap.entries() yields them
PropOrder == <<"color", "margin">>
Props == {PropOrder[i] : i \in 1..Len(PropOrder)}

ValuesOf(p) ==
    IF p = "color" THEN {Keyword("red"), Keyword("blue")}
    ELSE {Unit(0, "px")}

\* rule.styleMap.entries(): the declared pairs
entries(styleMap) ==
    LET keys == SelectSeq(PropOrder, LAMBDA k : k \in DOMAIN styleMap)
    IN [i \in 1..Len(keys) |-> <<keys[i], styleMap[keys[i]]>>]

----------------------------------------------------------------------------
(* Element.matches for the selectors of the model: a compound selector of  *)
(* an optional type and classes; anything else is a SyntaxError            *)

RECURSIVE splitDots(_, _)
\* the segments of s between dots, cur being the segment read so far
splitDots(s, cur) ==
    IF s = <<>> THEN <<cur>>
    ELSE IF Head(s) = "." THEN <<cur>> \o splitDots(Tail(s), <<>>)
    ELSE splitDots(Tail(s), Append(cur, Head(s)))

matchesThrows(selectorText) ==
    LET segs == splitDots(selectorText, <<>>)
    IN \/ selectorText = <<>>
       \/ \E i \in 1..Len(selectorText) :
             selectorText[i] \notin SelectorChars
       \/ \E i \in 2..Len(segs) : segs[i] = <<>>

matches(el, selectorText) ==
    LET segs == splitDots(selectorText, <<>>)
    IN /\ segs[1] = <<>> \/ segs[1] = el.tagName
       /\ \A i \in 2..Len(segs) : segs[i] \in el.classList

----------------------------------------------------------------------------
(* findCssRules *)

RECURSIVE matchingRules(_, _, _)
\* rules.forEach inside the try block: a throw ends the walk of the sheet,
\* the rules pushed before it stay in ret
matchingRules(el, rules, i) ==
    IF i > Len(rules) THEN <<>>
    ELSE IF matchesThrows(rules[i].selectorText) THEN <<>>
    ELSE (IF matches(el, rules[i].selectorText) THEN <<rules[i]>> ELSE <<>>)
         \o matchingRules(el, rules, i + 1)

RECURSIVE findCssRulesFrom(_, _, _)
findCssRulesFrom(el, sheets, s) ==
    IF s > Len(sheets) THEN <<>>
    ELSE (IF sheets[s].accessible
          THEN matchingRules(el, sheets[s].rules, 1)
          ELSE <<>>)
         \o findCssRulesFrom(el, sheets, s + 1)

findCssRules(el, sheets) == findCssRulesFrom(el, sheets, 1)

----------------------------------------------------------------------------
(* Rule classification *)

\* the test with every in place of some
hasOwnNonBackpackClassMutEvery(element) ==
    \A cn \in element.classList : ~startsWith(cn, <<"B","p","k">>)

hasOwnNonBackpackClass(element) ==
    \E cn \in element.classList : ~startsWith(cn, <<"B","p","k">>)

isBackpackClassRule(rule) ==
    startsWith(rule.selectorText, <<".","B","p","k">>)

\* the test without its regular expression and its leading dot
isNonBackpackClassRuleMutAnySelector(rule) == rule.selectorText # <<>>

isNonBackpackClassRule(rule) ==
    /\ startsWith(rule.selectorText, <<".">>)
    /\ Len(rule.selectorText) >= 2
    /\ \A i \in 2..Len(rule.selectorText) : rule.selectorText[i] \in ClassChars

----------------------------------------------------------------------------
(* scan *)

reverse(s) == [i \in 1..Len(s) |-> s[Len(s) + 1 - i]]

\* rules.slice(index + 1) reversed; index counts from 1 here
afterRulesMutSliceBefore(rules, index) == reverse(SubSeq(rules, 1, index - 1))

afterRulesMutNoReverse(rules, index) == SubSeq(rules, index + 1, Len(rules))

afterRules(rules, index) == reverse(SubSeq(rules, index + 1, Len(rules)))

\* the predicate of line 198 on the after-rule
afterIsBackpackMutClassRule(afterRule) ==
    ~isNonBackpackClassRule(afterRule) \/ isBackpackClassRule(afterRule)

afterIsBackpack(afterRule) ==
    startsWith(afterRule.selectorText, <<".","B","p","k">>)

RECURSIVE forAfterRule(_, _, _, _, _)
\* the for loop over afterRules for one [key, value] of rule: the sequence
\* of the returned object, empty for undefined
forAfterRule(rule, key, value, after, k) ==
    IF k > Len(after) THEN <<>>
    ELSE IF key \notin DOMAIN after[k].styleMap
         THEN forAfterRule(rule, key, value, after, k + 1)
    ELSE IF ~afterIsBackpack(after[k]) THEN <<>>
    ELSE IF getValue(after[k].styleMap[key]) = getValue(value) THEN <<>>
    ELSE << [key |-> key,
             before |-> getValue(value),
             after |-> getValue(after[k].styleMap[key]),
             rule |-> rule.selectorText] >>

RECURSIVE overriddenFrom(_, _, _, _)
\* properties.map(...).filter((p) => p)
overriddenFrom(rules, index, properties, n) ==
    IF n > Len(properties) THEN <<>>
    ELSE forAfterRule(rules[index], properties[n][1], properties[n][2],
                      afterRules(rules, index), 1)
         \o overriddenFrom(rules, index, properties, n + 1)

overridden(rules, index) ==
    overriddenFrom(rules, index, entries(rules[index].styleMap), 1)

RECURSIVE reduceRules(_, _)
\* rules.reduce((acc, rule, index) => ..., [])
reduceRules(rules, index) ==
    IF index > Len(rules) THEN <<>>
    ELSE (IF isBackpackClassRule(rules[index])
             \/ ~isNonBackpackClassRule(rules[index])
          THEN <<>>
          ELSE overridden(rules, index))
         \o reduceRules(rules, index + 1)

overriddenProperties(rules) == reduceRules(rules, 1)

QueryTags ==
    { <<"d","i","v">>, <<"s","p","a","n">>, <<"h","1">>, <<"h","2">>,
      <<"h","3">>, <<"h","4">>, <<"l","i">>, <<"a">>,
      <<"b","u","t","t","o","n">> }

RECURSIVE scanFromMutNoFilter(_, _, _)
\* the map of scan without the filter on overriddenProperties.length
scanFromMutNoFilter(d, sheets, e) ==
    IF e > Len(d) THEN <<>>
    ELSE LET props == overriddenProperties(findCssRules(d[e], sheets))
         IN (IF /\ d[e].attached
                /\ d[e].tagName \in QueryTags
                /\ hasOwnNonBackpackClass(d[e])
             THEN << [element |-> e, overriddenProperties |-> props] >>
             ELSE <<>>)
            \o scanFromMutNoFilter(d, sheets, e + 1)

RECURSIVE scanFrom(_, _, _)
scanFrom(d, sheets, e) ==
    IF e > Len(d) THEN <<>>
    ELSE LET props == overriddenProperties(findCssRules(d[e], sheets))
         IN (IF /\ d[e].attached
                /\ d[e].tagName \in QueryTags
                /\ hasOwnNonBackpackClass(d[e])
                /\ Len(props) > 0
             THEN << [element |-> e, overriddenProperties |-> props] >>
             ELSE <<>>)
            \o scanFrom(d, sheets, e + 1)

scan(d, sheets) == scanFrom(d, sheets, 1)

----------------------------------------------------------------------------
(* The page *)

\* the highlight box-shadow of line 285
Highlight == "0 0 2px 2px red, inset 0 0 0 500px rgba(255,0,0,0.5)"
\* an inline box-shadow some elements of the page bring along
OwnShadow == "0 0 1px blue"
\* a dataset entry that was never written
Undefined == "undefined"

StyleKeys == {"boxShadow"} \cup Props

Rule(sel, sm) == [selectorText |-> sel, styleMap |-> sm]
Sheet(acc, rs) == [accessible |-> acc, rules |-> rs]

\* element i of the page: every third carries framework classes only, every
\* second an inline box-shadow of its own
Element(i, att) ==
    [attached |-> att,
     tagName |-> <<"d","i","v">>,
     classList |-> IF i % 3 = 0 THEN {Bpk_X} ELSE {Card, Bpk_X},
     style |-> [k \in StyleKeys |->
                   IF k = "boxShadow" /\ i % 2 = 0 THEN OwnShadow ELSE ""],
     dataset |-> [originalBoxShadow |-> Undefined]]

ElementIds == 1..NumElements

\* the style sheets of the page the program runs on
PageSheets ==
    << Sheet(TRUE,
             << Rule(SelDiv, [margin |-> Unit(0, "px")]),
                Rule(SelCard, [color |-> Keyword("red"),
                               margin |-> Unit(0, "px")]),
                Rule(SelBpk_X, [color |-> Keyword("blue"),
                                margin |-> Unit(0, "px")]) >>),
       Sheet(FALSE, << Rule(SelBpk_X, [margin |-> Unit(4, "px")]) >>) >>

----------------------------------------------------------------------------
(* Inline style writes: Object.assign(element.style, {[key]: value}); an   *)
(* invalid value such as undefined leaves the declaration as it is         *)

setStyle(el, key, value) ==
    IF value = Undefined THEN el
    ELSE [el EXCEPT !.style[key] = value]

\* the elements of a result list
resultElements(r) == {r[i].element : i \in 1..Len(r)}

\* the "change" handler of the highlight toggle, lines 281-289
highlightHandler(d, r, state) ==
    [e \in DOMAIN d |->
        IF e \in resultElements(r)
        THEN setStyle(d[e], "boxShadow",
                      IF state THEN Highlight
                      ELSE d[e].dataset.originalBoxShadow)
        ELSE d[e]]

RECURSIVE fixProps(_, _, _, _)
\* props.forEach of the fix handler for one element, lines 300-304
fixProps(el, props, state, n) ==
    IF n > Len(props) THEN el
    ELSE fixProps(setStyle(el, props[n].key,
                           IF state THEN props[n].before ELSE ""),
                  props, state, n + 1)

RECURSIVE fixHandlerFrom(_, _, _, _)
\* the "change" handler of the fix toggle, lines 298-306
fixHandlerFrom(d, r, state, i) ==
    IF i > Len(r) THEN d
    ELSE fixHandlerFrom(
             [d EXCEPT ![r[i].element] =
                 fixProps(d[r[i].element], r[i].overriddenProperties, state, 1)],
             r, state, i + 1)

fixHandler(d, r, state) == fixHandlerFrom(d, r, state, 1)

----------------------------------------------------------------------------
(* update and createWrapper *)

\* createWrapper: the panel exists afterwards and shows results.length
createWrapper(r) == [wrapper |-> TRUE, text |-> Len(r)]

\* the forEach of update without the initialisedElements.has test
snapshotMutNoGuard(d, r, initialised) ==
    [e \in DOMAIN d |->
        IF e \in resultElements(r)
        THEN [d[e] EXCEPT !.dataset.originalBoxShadow = d[e].style.boxShadow]
        ELSE d[e]]

\* the forEach of update, lines 321-329: first-seen snapshot of box-shadow
snapshot(d, r, initialised) ==
    [e \in DOMAIN d |->
        IF e \in resultElements(r) /\ e \notin initialised
        THEN [d[e] EXCEPT !.dataset.originalBoxShadow = d[e].style.boxShadow]
        ELSE d[e]]

update ==
    LET r == scan(dom, styleSheets)
    IN /\ results' = r
       /\ IF Len(r) > 0
          THEN /\ wrapper' = createWrapper(r).wrapper
               /\ text' = createWrapper(r).text
               /\ dom' = snapshot(dom, r, initialisedElements)
               /\ initialisedElements' =
                      initialisedElements \cup resultElements(r)
          ELSE UNCHANGED <<wrapper, text, dom, initialisedElements>>

----------------------------------------------------------------------------
(* throttledUpdate and the timer *)

Min(a, b) == IF a < b THEN a ELSE b
Max(a, b) == IF a > b THEN a ELSE b

\* setTimeout(callback, ms): the timer is armed under the next id
setTimeout(ms) ==
    /\ timers' = timers \cup {[id |-> nextTimerId, remaining |-> ms]}
    /\ nextTimerId' = nextTimerId + 1

throttledUpdateMutNoGuard ==
    /\ updateTimeout' = nextTimerId
    /\ setTimeout(Delay)

throttledUpdateMutNoDelay ==
    IF updateTimeout # 0
    THEN UNCHANGED <<updateTimeout, timers, nextTimerId>>
    ELSE /\ updateTimeout' = nextTimerId
         /\ setTimeout(0)

throttledUpdate ==
    IF updateTimeout # 0
    THEN UNCHANGED <<updateTimeout, timers, nextTimerId>>
    ELSE /\ updateTimeout' = nextTimerId
         /\ setTimeout(Delay)

----------------------------------------------------------------------------
(* EventEmitter *)

\* property names every object inherits from Object.prototype: reading
\* this.handlers[name] yields the inherited function, which is truthy
ObjectPrototypeKeys ==
    {"constructor", "toString", "valueOf", "hasOwnProperty"}

\* event names: none, the toggles' event, another one, an inherited name
EventNames == {"", "change", "ready", "toString"}

\* !event
falsy(event) == event = ""

\* this.handlers[event] is an array on() stored
hasOwn(handlers, event) == event \in DOMAIN handlers

\* !this.handlers[event] is false: an own array or an inherited function
truthy(handlers, event) ==
    hasOwn(handlers, event) \/ event \in ObjectPrototypeKeys

\* constructor: this.handlers = {}
NewEmitter ==
    [handlers |-> <<>>, op |-> "new", event |-> "", calls |-> <<>>,
     caught |-> <<>>, outcome |-> "none"]

\* on(event, handler); push on an inherited function is a TypeError
on(em, event, handler) ==
    LET hs == IF truthy(em.handlers, event) THEN em.handlers
              ELSE [k \in DOMAIN em.handlers \cup {event} |->
                       IF k = event THEN <<>> ELSE em.handlers[k]]
    IN IF hasOwn(hs, event)
       THEN [em EXCEPT !.handlers = [hs EXCEPT ![event] = Append(@, handler)],
                       !.op = "on", !.event = event, !.outcome = "returned"]
       ELSE [em EXCEPT !.op = "on", !.event = event, !.outcome = "threw"]

\* h.forEach(handler => new Promise(...)): the executor runs at once, calls
\* the handler and hands what it throws to console.error
forEach(h) ==
    [calls |-> [i \in 1..Len(h) |-> h[i].id],
     caught |-> LET thrown == SelectSeq(h, LAMBDA x : x.throws)
                IN [i \in 1..Len(thrown) |-> thrown[i].id],
     outcome |-> "returned"]

\* send(event, ...data); forEach of an inherited function is a TypeError
send(em, event) ==
    LET none == [calls |-> <<>>, caught |-> <<>>, outcome |-> "returned"]
        r == IF falsy(event) THEN none
             ELSE IF ~truthy(em.handlers, event) THEN none
             ELSE IF ~hasOwn(em.handlers, event)
                  THEN [calls |-> <<>>, caught |-> <<>>, outcome |-> "threw"]
             ELSE forEach(em.handlers[event])
    IN [em EXCEPT !.op = "send", !.event = event, !.calls = r.calls,
                  !.caught = r.caught, !.outcome = r.outcome]

\* the handlers on() has stored so far
registrations(em) ==
    LET evs == DOMAIN em.handlers
    IN IF evs = {} THEN 0
       ELSE LET RECURSIVE sum(_)
                sum(S) == IF S = {} THEN 0
                          ELSE LET x == CHOOSE y \in S : TRUE
                               IN Len(em.handlers[x]) + sum(S \ {x})
            IN sum(evs)

----------------------------------------------------------------------------
(* Actions *)

\* the body of the script: update(), then the observer is registered
Main ==
    /\ UNCHANGED emitter
    /\ pc = "load"
    /\ pc' = "idle"
    /\ update
    /\ UNCHANGED <<styleSheets, highlightState, fixState, updateTimeout,
                   timers, nextTimerId, mutationQueued, windowSignals,
                   windowScans, sinceFirst, sinceLast, unscanned,
                   everHighlighted>>

\* the page adds or removes an element below document.body (childList)
DomMutation ==
    /\ UNCHANGED emitter
    /\ pc = "idle"
    /\ \E e \in ElementIds :
          dom' = [dom EXCEPT ![e].attached = ~dom[e].attached]
    /\ mutationQueued' = TRUE
    /\ UNCHANGED <<styleSheets, results, wrapper, text, highlightState,
                   fixState, initialisedElements, updateTimeout, timers,
                   nextTimerId, pc, windowSignals, windowScans, sinceFirst,
                   sinceLast, unscanned, everHighlighted>>

\* the MutationObserver callback: () => throttledUpdate()
ObserverCallback ==
    /\ UNCHANGED emitter
    /\ pc = "idle"
    /\ mutationQueued
    /\ mutationQueued' = FALSE
    /\ throttledUpdate
    /\ IF timers # {}
       THEN /\ windowSignals' = Min(windowSignals + 1, MaxSignals)
            /\ UNCHANGED <<windowScans, sinceFirst>>
       ELSE /\ windowSignals' = 0
            /\ windowScans' = 0
            /\ sinceFirst' = 0
    /\ sinceLast' = 0
    /\ unscanned' = TRUE
    /\ UNCHANGED <<dom, styleSheets, results, wrapper, text, highlightState,
                   fixState, initialisedElements, pc, everHighlighted>>

\* time passes while a timer waits
Tick ==
    /\ UNCHANGED emitter
    /\ \E t \in timers : t.remaining > 0
    /\ timers' = {[t EXCEPT !.remaining = Max(0, t.remaining - TickMs)] :
                     t \in timers}
    /\ sinceFirst' = Min(sinceFirst + TickMs, Delay)
    /\ sinceLast' = Min(sinceLast + TickMs, Delay)
    /\ UNCHANGED <<dom, styleSheets, results, wrapper, text, highlightState,
                   fixState, initialisedElements, updateTimeout, nextTimerId,
                   pc, mutationQueued, windowSignals, windowScans, unscanned,
                   everHighlighted>>

\* the timer callback: clearTimeout(updateTimeout); update()
TimerCallback ==
    /\ UNCHANGED emitter
    /\ \E t \in timers :
          /\ t.remaining = 0
          /\ \A u \in timers : u.remaining = 0 => t.id <= u.id
          /\ timers' = {u \in timers : u.id # t.id /\ u.id # updateTimeout}
    /\ update
    \* createWrapper changes the children of document.body or of the text node
    /\ mutationQueued' = (mutationQueued \/ Len(results') > 0)
    /\ windowScans' = Min(windowScans + 1, MaxSignals)
    /\ unscanned' = FALSE
    /\ UNCHANGED <<styleSheets, highlightState, fixState, updateTimeout,
                   nextTimerId, pc, windowSignals, sinceFirst, sinceLast,
                   everHighlighted>>

\* a click on the highlight toggle: setState(!state) sends "change"
ClickHighlight ==
    /\ UNCHANGED emitter
    /\ wrapper
    /\ highlightState' = ~highlightState
    /\ dom' = highlightHandler(dom, results, highlightState')
    /\ everHighlighted' =
           IF highlightState' THEN everHighlighted \cup resultElements(results)
           ELSE everHighlighted
    /\ UNCHANGED <<styleSheets, results, wrapper, text, fixState,
                   initialisedElements, updateTimeout, timers, nextTimerId,
                   pc, mutationQueued, windowSignals, windowScans, sinceFirst,
                   sinceLast, unscanned>>

\* a click on the fix toggle
ClickFix ==
    /\ UNCHANGED emitter
    /\ wrapper
    /\ fixState' = ~fixState
    /\ dom' = fixHandler(dom, results, fixState')
    /\ UNCHANGED <<styleSheets, results, wrapper, text, highlightState,
                   initialisedElements, updateTimeout, timers, nextTimerId,
                   pc, mutationQueued, windowSignals, windowScans, sinceFirst,
                   sinceLast, unscanned, everHighlighted>>

\* all variables but emitter
pageVars ==
    <<dom, styleSheets, results, wrapper, text, highlightState, fixState,
      initialisedElements, updateTimeout, timers, nextTimerId, pc,
      mutationQueued, windowSignals, windowScans, sinceFirst, sinceLast,
      unscanned, everHighlighted>>

\* a caller registers a handler that returns or one that throws
EmitterOn ==
    /\ registrations(emitter) < MaxHandlers
    /\ \E event \in EventNames, throws \in BOOLEAN :
          emitter' = on(emitter, event,
                        [id |-> registrations(emitter) + 1, throws |-> throws])
    /\ UNCHANGED pageVars

\* a caller sends an event
EmitterSend ==
    /\ \E event \in EventNames : emitter' = send(emitter, event)
    /\ UNCHANGED pageVars

----------------------------------------------------------------------------
(* Specifications *)

InitProgram ==
    /\ results = <<>>
    /\ wrapper = FALSE
    /\ text = -1
    /\ highlightState = FALSE
    /\ fixState = FALSE
    /\ initialisedElements = {}
    /\ updateTimeout = 0
    /\ timers = {}
    /\ nextTimerId = 1
    /\ pc = "load"
    /\ mutationQueued = FALSE
    /\ windowSignals = 0
    /\ windowScans = 0
    /\ sinceFirst = 0
    /\ sinceLast = 0
    /\ unscanned = FALSE
    /\ everHighlighted = {}
    /\ emitter = NewEmitter

\* the script is loaded into a page holding any of the elements
Init ==
    /\ \E att \in [ElementIds -> BOOLEAN] :
          dom = [i \in ElementIds |-> Element(i, att[i])]
    /\ styleSheets = PageSheets
    /\ InitProgram

Next ==
    \/ Main
    \/ DomMutation
    \/ ObserverCallback
    \/ Tick
    \/ TimerCallback
    \/ ClickHighlight
    \/ ClickFix

Spec == Init /\ [][Next]_vars

\* a timer has run down: its callback is ready to run
TimerDue == \E t \in timers : t.remaining = 0

\* The browser's event loop runs a queued observer callback and a due timer
\* callback, and time passes while a timer waits.  The callback of a due
\* timer always removes it from timers, so TimerDue is ENABLED
\* <<TimerCallback>>_vars and the last conjunct is WF_vars(TimerCallback)
\* written out.
FairSpec ==
    /\ Spec
    /\ WF_vars(ObserverCallback)
    /\ WF_vars(Tick)
    /\ ([]<>(~TimerDue) \/ []<><<TimerCallback>>_vars)

(* The resolver on every rule list up to MaxRules: the page holds element 1 *)
(* and one readable sheet                                                   *)

SelectorUniverse == {SelCard, SelBpk_X, SelDiv}

\* the declaration blocks of the rules: at least one declaration
StyleMaps == UNION { {sm \in [D -> UNION {ValuesOf(p) : p \in Props}] :
                         \A p \in D : sm[p] \in ValuesOf(p)} :
                     D \in (SUBSET Props) \ {{}} }

RuleUniverse == {Rule(sel, sm) : sel \in SelectorUniverse, sm \in StyleMaps}

RuleLists == UNION {[1..n -> RuleUniverse] : n \in 0..MaxRules}

ResolveInit ==
    /\ dom = [i \in ElementIds |-> Element(i, i = 1)]
    /\ \E rs \in RuleLists : styleSheets = << Sheet(TRUE, rs) >>
    /\ InitProgram

ResolveNext == Main

ResolveSpec == ResolveInit /\ [][ResolveNext]_vars

(* findCssRules on every list of up to MaxSheets sheets: a sheet is       *)
(* cross-origin (reading its rules throws) or readable with up to          *)
(* MaxSheetRules rules, among them an @page :first rule, whose selectorText *)
(* Element.matches cannot parse                                            *)

SheetRuleUniverse ==
    { Rule(SelCard, [color |-> Keyword("red")]),
      Rule(SelBpk_X, [color |-> Keyword("blue")]),
      Rule(SelPageFirst, [margin |-> Unit(0, "px")]) }

SheetUniverse ==
    {Sheet(TRUE, rs) :
        rs \in UNION {[1..n -> SheetRuleUniverse] : n \in 0..MaxSheetRules}}
    \cup { Sheet(FALSE, << Rule(SelCard, [color |-> Keyword("red")]),
                           Rule(SelBpk_X, [color |-> Keyword("blue")]) >>) }

FindInit ==
    /\ dom = [i \in ElementIds |-> Element(i, TRUE)]
    /\ styleSheets \in UNION {[1..n -> SheetUniverse] : n \in 0..MaxSheets}
    /\ InitProgram

FindNext == Main

FindSpec == FindInit /\ [][FindNext]_vars

(* The scan of a page whose elements carry any classes                   *)

ClassNames == {Card, Bp, Bpk, Bpk_X}

ClassSheets ==
    << Sheet(TRUE,
             << Rule(SelBp, [color |-> Keyword("red")]),
                Rule(SelCard, [color |-> Keyword("red")]),
                Rule(SelBpk, [color |-> Keyword("blue")]),
                Rule(SelBpk_X, [color |-> Keyword("blue")]) >>) >>

ClassInit ==
    /\ \E cl \in [ElementIds -> SUBSET ClassNames] :
          dom = [i \in ElementIds |->
                    [Element(i, TRUE) EXCEPT !.classList = cl[i]]]
    /\ styleSheets = ClassSheets
    /\ InitProgram

ClassNext == Main

ClassSpec == ClassInit /\ [][ClassNext]_vars

(* An EventEmitter under any calls of on and send *)

EmitterInit ==
    /\ dom = [i \in ElementIds |-> Element(i, TRUE)]
    /\ styleSheets = PageSheets
    /\ InitProgram

EmitterNext == EmitterOn \/ EmitterSend

EmitterSpec == EmitterInit /\ [][EmitterNext]_vars

----------------------------------------------------------------------------
(* The vocabulary of the resolver properties, in the specification's terms *)

\* a Framework rule: the selector has the ".Bpk" prefix
IsFramework(rule) ==
    LET sel == rule.selectorText
    IN Len(sel) >= 4 /\ sel[1] = "." /\ sel[2] = "B" /\ sel[3] = "p"
                     /\ sel[4] = "k"

\* a selector that is one class and nothing else
IsSingleClass(rule) ==
    LET sel == rule.selectorText
    IN /\ Len(sel) >= 2
       /\ sel[1] = "."
       /\ \A i \in 2..Len(sel) : sel[i] \in ClassChars

IsAuthorCandidate(rule) == IsSingleClass(rule) /\ ~IsFramework(rule)
IsIrrelevant(rule) == ~IsSingleClass(rule) /\ ~IsFramework(rule)

Declares(rule, P) == P \in DOMAIN rule.styleMap

\* the positions after i whose rule declares P
Declarers(rules, i, P) ==
    {j \in (i + 1)..Len(rules) : Declares(rules[j], P)}

\* W: the rule met first when the rules after i are walked last-applied first
LastDeclarer(rules, i, P) ==
    CHOOSE j \in Declarers(rules, i, P) :
        \A k \in Declarers(rules, i, P) : k <= j

\* the matching rules of element 1, and what the last scan reported for it
Rules1 == findCssRules(dom[1], styleSheets)
Emitted1 ==
    LET hits == SelectSeq(results, LAMBDA r : r.element = 1)
    IN IF hits = <<>> THEN <<>> ELSE hits[1].overriddenProperties

\* the override of a report without its rule field
Strip(os) ==
    [k \in 1..Len(os) |->
        [key |-> os[k].key, before |-> os[k].before, after |-> os[k].after]]

\* what the specification asks for rule i and property P
ExpectedFor(rules, i, P) ==
    IF Declarers(rules, i, P) = {} THEN <<>>
    ELSE LET W == rules[LastDeclarer(rules, i, P)]
         IN IF /\ IsFramework(W)
               /\ getValue(W.styleMap[P]) # getValue(rules[i].styleMap[P])
            THEN << [key |-> P,
                     before |-> getValue(rules[i].styleMap[P]),
                     after |-> getValue(W.styleMap[P])] >>
            ELSE <<>>

RECURSIVE ExpectedFrom(_, _, _)
\* rule order, then declaration order within the rule
ExpectedFrom(rules, i, n) ==
    IF i > Len(rules) THEN <<>>
    ELSE IF n > Len(PropOrder) THEN ExpectedFrom(rules, i + 1, 1)
    ELSE (IF IsAuthorCandidate(rules[i]) /\ Declares(rules[i], PropOrder[n])
          THEN ExpectedFor(rules, i, PropOrder[n])
          ELSE <<>>)
         \o ExpectedFrom(rules, i, n + 1)

ExpectedOverrides(rules) == ExpectedFrom(rules, 1, 1)

\* the overrides the scan computes for the rule at position i of rules, and
\* for its property P
EmittedByRule(rules, i) ==
    IF IsAuthorCandidate(rules[i]) THEN overridden(rules, i) ELSE <<>>

EmittedBy(rules, i, P) ==
    SelectSeq(EmittedByRule(rules, i), LAMBDA o : o.key = P)

RECURSIVE ConcatEmitted(_, _)
ConcatEmitted(rules, i) ==
    IF i > Len(rules) THEN <<>>
    ELSE EmittedByRule(rules, i) \o ConcatEmitted(rules, i + 1)

\* the reported list is the per-rule overrides in rule order
Attributed(rules, emitted) == emitted = ConcatEmitted(rules, 1)

\* the AuthorCandidate positions with a property they declare
AuthorProps(rules) ==
    {ip \in (1..Len(rules)) \X Props :
        IsAuthorCandidate(rules[ip[1]]) /\ Declares(rules[ip[1]], ip[2])}

\* the last rule after i that declares P is a non-Framework rule
LastIsNonFramework(rules, i, P) ==
    /\ Declarers(rules, i, P) # {}
    /\ ~IsFramework(rules[LastDeclarer(rules, i, P)])

----------------------------------------------------------------------------
(* Resolver properties *)

\* C1: for every AuthorCandidate rule R at position i and property P of R,
\* scan reports exactly one override {P, R's value, W's value} when W, the
\* last rule after i that declares P, is a Framework rule with a different
\* value string, and none when there is no such W, W is not a Framework rule
\* or the value strings are equal; the reports come in rule, then property
\* order.
C1_ScanReportsNearestFrameworkOverride ==
    pc = "idle" => Strip(Emitted1) = ExpectedOverrides(Rules1)

\* a scan that reported an override and passed over an equal Framework value
\* and over a non-Framework winner
C1_Witness ==
    LET rules == Rules1
    IN /\ pc = "idle"
       /\ Len(Emitted1) >= 1
       /\ \E ip \in AuthorProps(rules) :
             /\ Declarers(rules, ip[1], ip[2]) # {}
             /\ IsFramework(rules[LastDeclarer(rules, ip[1], ip[2])])
             /\ ExpectedFor(rules, ip[1], ip[2]) = <<>>
       /\ \E ip \in AuthorProps(rules) :
             LastIsNonFramework(rules, ip[1], ip[2])

\* a non-Framework rule after i declares P at an earlier position than any
\* Framework rule after i that declares P
EarlierNonFramework(rules, i, P) ==
    \E j \in Declarers(rules, i, P) :
        /\ ~IsFramework(rules[j])
        /\ \A k \in Declarers(rules, i, P) : IsFramework(rules[k]) => j < k

\* C2 as stated: a non-Framework rule declaring P earlier in cascade order
\* than any Framework rule declaring P, both after R, means no override is
\* reported for (R, P), whatever Framework rules follow.
C2_EarlierNonFrameworkSuppresses ==
    pc = "idle" =>
        LET rules == Rules1
        IN /\ Attributed(rules, Emitted1)
           /\ \A ip \in AuthorProps(rules) :
                 EarlierNonFramework(rules, ip[1], ip[2])
                     => EmittedBy(rules, ip[1], ip[2]) = <<>>

\* C2 amended: when the last rule after R that declares P is a non-Framework
\* rule (it comes later in cascade order than every Framework rule declaring
\* P), no override is reported for (R, P), whatever Framework rules declare P
\* at earlier positions.
C2_LastNonFrameworkSuppresses ==
    pc = "idle" =>
        LET rules == Rules1
        IN /\ Attributed(rules, Emitted1)
           /\ \A ip \in AuthorProps(rules) :
                 LastIsNonFramework(rules, ip[1], ip[2])
                     => EmittedBy(rules, ip[1], ip[2]) = <<>>

\* a Framework rule with another value sits between R and the non-Framework
\* rule that declares P last
C2_Witness ==
    LET rules == Rules1
    IN /\ pc = "idle"
       /\ \E ip \in AuthorProps(rules) :
             /\ LastIsNonFramework(rules, ip[1], ip[2])
             /\ \E k \in Declarers(rules, ip[1], ip[2]) :
                   /\ IsFramework(rules[k])
                   /\ getValue(rules[k].styleMap[ip[2]])
                          # getValue(rules[ip[1]].styleMap[ip[2]])

\* C3 as stated: the rule field of every reported override is the selector
\* of the overriding Framework rule.
C3_RuleFieldNamesFrameworkRule ==
    pc = "idle" =>
        LET emitted == Emitted1
        IN \A k \in 1..Len(emitted) :
               IsFramework([selectorText |-> emitted[k].rule])

WithoutIrrelevant(rules) == SelectSeq(rules, LAMBDA r : ~IsIrrelevant(r))

\* C4 as stated: the reported overrides are those computed from the rule
\* list with every Irrelevant rule removed.
C4_IrrelevantRulesNeverParticipate ==
    pc = "idle" =>
        Emitted1 = overriddenProperties(WithoutIrrelevant(Rules1))

\* no Irrelevant rule is the last rule after an AuthorCandidate rule to
\* declare one of its properties
NoIrrelevantWinner(rules) ==
    \A ip \in AuthorProps(rules) :
        \/ Declarers(rules, ip[1], ip[2]) = {}
        \/ ~IsIrrelevant(rules[LastDeclarer(rules, ip[1], ip[2])])

\* C4 amended: the reported overrides are those computed from the list with
\* every Irrelevant rule removed, provided no Irrelevant rule is the last
\* rule after an AuthorCandidate rule R to declare a property of R (there it
\* is accepted like any non-Framework rule and suppresses the override).
C4_IrrelevantRulesOnlyShadow ==
    pc = "idle" =>
        LET rules == Rules1
        IN NoIrrelevantWinner(rules) =>
               Emitted1 = overriddenProperties(WithoutIrrelevant(rules))

\* an Irrelevant rule declaring P sits between R and the Framework rule that
\* overrides P
C4_Witness ==
    LET rules == Rules1
    IN /\ pc = "idle"
       /\ NoIrrelevantWinner(rules)
       /\ Len(Emitted1) >= 1
       /\ \E ip \in AuthorProps(rules) :
             /\ EmittedBy(rules, ip[1], ip[2]) # <<>>
             /\ \E j \in Declarers(rules, ip[1], ip[2]) :
                   IsIrrelevant(rules[j])

\* a Framework rule before position i declares P and no rule after i
\* declares P
FrameworkOnlyBefore(rules, i, P) ==
    /\ \E j \in 1..(i - 1) : IsFramework(rules[j]) /\ Declares(rules[j], P)
    /\ Declarers(rules, i, P) = {}

\* C5: a Framework rule before R never gets R reported: if one declares P
\* and no rule after R declares P, no override is reported for (R, P), and
\* none with key P at all.
C5_FrameworkBeforeNeverReported ==
    pc = "idle" =>
        LET rules == Rules1
            emitted == Emitted1
        IN /\ Attributed(rules, emitted)
           /\ \A ip \in AuthorProps(rules) :
                 FrameworkOnlyBefore(rules, ip[1], ip[2])
                     => /\ EmittedBy(rules, ip[1], ip[2]) = <<>>
                        /\ \A k \in 1..Len(emitted) : emitted[k].key # ip[2]

\* a Framework rule with another value precedes R and nothing follows R
C5_Witness ==
    LET rules == Rules1
    IN /\ pc = "idle"
       /\ \E ip \in AuthorProps(rules) :
             /\ FrameworkOnlyBefore(rules, ip[1], ip[2])
             /\ \E j \in 1..(ip[1] - 1) :
                   /\ IsFramework(rules[j])
                   /\ Declares(rules[j], ip[2])
                   /\ getValue(rules[j].styleMap[ip[2]])
                          # getValue(rules[ip[1]].styleMap[ip[2]])

----------------------------------------------------------------------------
(* Re-scan scheduling properties *)

\* C6: the signals delivered while a settling timer is armed, however many,
\* result in exactly one update(): never more than one, and one once the
\* timer is gone.
C6_BurstRunsOneScan ==
    windowSignals >= 1 =>
        /\ windowScans <= 1
        /\ timers = {} => windowScans = 1

\* two or more signals came while the timer was armed and it has run
C6_Witness ==
    /\ windowSignals >= 2
    /\ timers = {}
    /\ windowScans = 1

\* C7 as stated: every mutation signal delivered to the core, at any point
\* of the page's lifetime, is eventually followed by a scan.
C7_EverySignalEventuallyScanned == unscanned ~> ~unscanned

\* a signal delivered while the timer is still armed is followed by a scan
ArmedSignalEventuallyScanned == (unscanned /\ timers # {}) ~> ~unscanned

\* C8 as stated: the scan of a burst is not executed until the settling
\* delay has elapsed since the last signal of the burst.
C8_ScanAfterLastSignalSettles ==
    [][TimerCallback => sinceLast >= Delay]_vars

\* C8 amended: the scan of a burst is not executed until the settling delay
\* has elapsed since the first signal of the burst, the one that armed the
\* timer; later signals of the burst do not postpone it.
C8_ScanAfterFirstSignalSettles ==
    [][TimerCallback => sinceFirst >= Delay]_vars

\* the scan of a burst ran sooner than the delay after the last signal
C8_Witness ==
    /\ windowScans = 1
    /\ windowSignals >= 1
    /\ sinceFirst >= Delay
    /\ sinceLast < Delay

\* C9: at most one settling timer is armed; a signal that arrives while one
\* is armed arms no second one, and the scan the armed timer runs reads the
\* page as it is then, with every change signalled meanwhile.
C9_AtMostOneTimerArmed ==
    [][/\ Cardinality(timers') <= 1
       /\ (ObserverCallback /\ timers # {}) => timers' = timers
       /\ TimerCallback => results' = scan(dom, styleSheets)]_vars

\* a signal arrived while the timer was armed, and the timer is still armed
C9_Witness ==
    /\ Cardinality(timers) = 1
    /\ windowSignals >= 1
    /\ mutationQueued

----------------------------------------------------------------------------
(* Remediation properties *)

\* C10 as stated: whenever the highlight toggle has been switched on and
\* then off, every element that received the highlight box-shadow has its
\* inline box-shadow equal to its memoized snapshot again.
C10_HighlightReversible ==
    (wrapper /\ ~highlightState) =>
        \A e \in everHighlighted :
            dom[e].style.boxShadow = dom[e].dataset.originalBoxShadow

\* the inline declarations the fix toggle forced onto element e and that it
\* still carries: the page's elements bring no inline value for these
\* properties, and only the fix handler writes them
forcedValues(e) == {k \in Props : dom[e].style[k] # ""}

\* C11 as stated: whenever the fix toggle has been switched on and then off,
\* no element still carries an inline value the toggle forced onto it.
C11_FixReversible ==
    (wrapper /\ ~fixState) => \A e \in ElementIds : forcedValues(e) = {}

----------------------------------------------------------------------------
(* Rule matching properties *)

\* the rules of a readable sheet whose selector can be evaluated against el
\* and matches it, in the order of the sheet
MatchingOfSheet(el, sheet) ==
    SelectSeq(sheet.rules,
              LAMBDA r : ~matchesThrows(r.selectorText)
                         /\ matches(el, r.selectorText))

RECURSIVE Flatten(_)
Flatten(ss) == IF ss = <<>> THEN <<>> ELSE Head(ss) \o Flatten(Tail(ss))

\* C12 as stated: a rule whose selector throws is the only rule left out;
\* every other matching rule of its sheet, before and after it, and of the
\* other sheets is returned by findCssRules, in cascade order.
C12_MalformedSelectorExcludesOnlyThatRule ==
    pc = "idle" =>
        \A e \in ElementIds :
            findCssRules(dom[e], styleSheets) =
                Flatten([s \in 1..Len(styleSheets) |->
                            IF styleSheets[s].accessible
                            THEN MatchingOfSheet(dom[e], styleSheets[s])
                            ELSE <<>>])

\* the sheets whose rule list can be read, in sheet order
ReadableSheets == SelectSeq(styleSheets, LAMBDA sh : sh.accessible)

\* C13 as stated: an unreadable sheet contributes no rule and no error; the
\* result of findCssRules is exactly the matching rules of the readable
\* sheets, by sheet order and then in-sheet order.
C13_ResultIsMatchingRulesOfReadableSheets ==
    pc = "idle" =>
        LET readable == ReadableSheets
        IN \A e \in ElementIds :
               /\ Len(findCssRules(dom[e], styleSheets))
                      = Len(findCssRules(dom[e], readable))
               /\ findCssRules(dom[e], styleSheets)
                      = Flatten([s \in 1..Len(readable) |->
                                    MatchingOfSheet(dom[e], readable[s])])

\* an unreadable sheet contributes nothing: the result is the one computed
\* from the readable sheets alone
UnreadableSheetsContributeNothing ==
    \A e \in ElementIds :
        findCssRules(dom[e], styleSheets)
            = findCssRules(dom[e], ReadableSheets)

----------------------------------------------------------------------------
(* Listener properties *)

\* the ids of the handlers registered for an event, in registration order
Registered(em, event) ==
    IF event \in DOMAIN em.handlers
    THEN [i \in 1..Len(em.handlers[event]) |-> em.handlers[event][i].id]
    ELSE <<>>

ListenerIsolationForOrdinaryEvents ==
    (/\ emitter.op = "send"
     /\ ~falsy(emitter.event)
     /\ emitter.event \notin ObjectPrototypeKeys) =>
        /\ emitter.calls = Registered(emitter, emitter.event)
        /\ emitter.outcome = "returned"

----------------------------------------------------------------------------
(* Snapshot properties *)

\* C15: the set of snapped elements never shrinks and holds every flagged
\* element; an element's box-shadow snapshot is written in the step of the
\* first scan that flags it, with the inline box-shadow it has then, is
\* unwritten before and unchanged after, and is never the highlight value.
C15_SnapshotWrittenOnce ==
    [][/\ initialisedElements \subseteq initialisedElements'
       /\ resultElements(results') \subseteq initialisedElements'
       /\ \A e \in ElementIds :
             LET before == dom[e].dataset.originalBoxShadow
                 after == dom'[e].dataset.originalBoxShadow
             IN /\ e \in initialisedElements => after = before
                /\ e \in initialisedElements' \ initialisedElements =>
                      /\ e \in resultElements(results')
                      /\ before = Undefined
                      /\ after = dom[e].style.boxShadow
                /\ e \notin initialisedElements' => after = Undefined
                /\ after # Highlight]_vars

\* a scan ran while the toggle was on: it flagged e2 for the first time and
\* met e1 again, highlighted, whose snapshot is still the original value
C15_Witness ==
    /\ highlightState
    /\ \E e1, e2 \in resultElements(results) :
          /\ dom[e1].style.boxShadow = Highlight
          /\ dom[e1].dataset.originalBoxShadow \notin {Highlight, Undefined}
          /\ dom[e2].style.boxShadow # Highlight
          /\ e2 \in initialisedElements

----------------------------------------------------------------------------
(* Candidate properties *)

\* a class name under the framework's convention: it begins with B, p, k
IsFrameworkClass(cn) ==
    Len(cn) >= 3 /\ cn[1] = "B" /\ cn[2] = "p" /\ cn[3] = "k"

IsCandidate(el) == \E cn \in el.classList : ~IsFrameworkClass(cn)

\* C17: an element is a candidate iff one of its class names does not start
\* with "Bpk"; an element without classes or with "Bpk" classes only is in
\* no scan result, whatever rules match it.
C17_OnlyCandidatesReported ==
    pc = "idle" =>
        \A e \in ElementIds :
            /\ hasOwnNonBackpackClass(dom[e]) <=> IsCandidate(dom[e])
            /\ e \in resultElements(results) =>
                   /\ IsCandidate(dom[e])
                   /\ hasOwnNonBackpackClass(dom[e])
            /\ (dom[e].classList = {}
                \/ \A cn \in dom[e].classList : IsFrameworkClass(cn)) =>
                   e \notin resultElements(results)

\* a scan met an element without classes, one with framework classes only
\* that rules match, and reported one that mixes both kinds of classes
C17_Witness ==
    /\ pc = "idle"
    /\ \E e \in ElementIds : dom[e].classList = {}
    /\ \E e \in ElementIds :
          /\ dom[e].classList = {Bpk, Bpk_X}
          /\ Len(findCssRules(dom[e], styleSheets)) = 2
          /\ e \notin resultElements(results)
    /\ \E e \in resultElements(results) :
          \E cn \in dom[e].classList : IsFrameworkClass(cn)

\* C18: in every reachable state every entry of results has a non-empty
\* overriddenProperties list.
C18_ResultsHaveOverrides ==
    \A i \in 1..Len(results) : Len(results[i].overriddenProperties) > 0

\* a scan reported an element and left out a candidate that rules match but
\* whose override list is empty
C18_Witness ==
    /\ pc = "idle"
    /\ Len(results) >= 1
    /\ \E e \in ElementIds :
          /\ hasOwnNonBackpackClass(dom[e])
          /\ Len(findCssRules(dom[e], styleSheets)) >= 2
          /\ overriddenProperties(findCssRules(dom[e], styleSheets)) = <<>>
          /\ e \notin resultElements(results)

----------------------------------------------------------------------------
(* Panel properties *)

\* C19 as stated: after every completed update(), if the panel exists, the
\* count it shows is the length of the current results list, also when a
\* later scan finds no override after an earlier scan found some.
C19_PanelCountIsCurrent == wrapper => text = Len(results)

\* C20 as stated: whenever the highlight toggle is on, every element of the
\* current results list carries the highlight box-shadow, also an element
\* first flagged by a scan that ran after the toggle was switched on.
C20_ResultsCarryHighlight ==
    highlightState =>
        \A e \in resultElements(results) :
            dom[e].style.boxShadow = Highlight

====
